---- MODULE Spec2Model ----
(***************************************************************************)
(* LuminaBook Visualizer: the scene store, the playback scheduler and the  *)
(* export pipeline of the App component, as a state machine.               *)
(*                                                                         *)
(* The repository holds three revisions of the App component:              *)
(*   "ffmpeg"   src/unnamed/part_002  frames dumped into an FFmpeg virtual *)
(*              file system and encoded at the end (fps = 25)              *)
(*   "recorder" src/unnamed/part_000  frames drawn on a canvas recorded by *)
(*              a MediaRecorder (fps = 24)                                 *)
(*   "cloud"    src/App.tsx           video rendered by a remote service   *)
(* The variable build says which revision is running.                      *)
(*                                                                         *)
(* Times are JavaScript numbers.  A time entered in the editor is the      *)
(* decimal string of a whole number of tenths of a second; the model keeps *)
(* that number of tenths in the scene and converts it to the IEEE-754      *)
(* double the program computes with (ParseFloat), so that the sums, the    *)
(* product with the frame rate and Math.ceil round as they do in the code. *)
(***************************************************************************)
EXTENDS Integers, Sequences, FiniteSets, TLC

(***************************************************************************)
(* Bounds of the model.                                                    *)
(***************************************************************************)
\* bits per limb of the fixed-point numbers that carry doubles exactly
LimbBits == 20
\* largest number of tenths of a second the timing inputs range over
MaxTenths == 4
\* export requests per behaviour
MaxExports == 2
\* playback sessions per behaviour
MaxSessions == 2
\* scenes the store grows to by addScene
MaxScenes == 3
\* paragraphs of an imported text file
MaxParagraphs == 2
\* Date.now() at an import ranges over 0..MaxClock
MaxClock == 1
\* lines of an imported text file whose lines are drawn from LineChoices
MaxLines == 2
\* largest number of tenths of a second a project holds (the 3 s of the
\* longest scene of the scenario project)
MaxTime == 30

(***************************************************************************)
(* IEEE-754 doubles, non-negative and finite, as fixed-point numbers of    *)
(* four limbs <<l1, l2, l3, l4>>, each in 0..Base-1, of value              *)
(* (l1 + l2*Base + l3*Base^2 + l4*Base^3) / Base^3: l4 is the integer      *)
(* part.  Bit n (from 1) has weight 2^(n - 1 - 3*LimbBits).  Every double  *)
(* the program computes here (at least 2^-4, below 2^LimbBits) is carried  *)
(* exactly.                                                                *)
(***************************************************************************)
\* significand bits of a double
MantissaBits == 53

RECURSIVE TwoToThe(_)
TwoToThe(k) == IF k = 0 THEN 1 ELSE 2 * TwoToThe(k - 1)

\* the powers of two up to 2 * Base, computed once
PowersOfTwo == [k \in 0..(LimbBits + 1) |-> TwoToThe(k)]

Pow2(k) == PowersOfTwo[k]

Base == Pow2(LimbBits)

Limbs == 1..4

DZero == <<0, 0, 0, 0>>

\* the double of a small non-negative integer (exact)
IntToDouble(n) == <<0, 0, 0, n>>

\* carry propagation over limbs that may exceed Base
Norm(r) ==
  LET t2 == r[2] + (r[1] \div Base)
      t3 == r[3] + (t2 \div Base)
      t4 == r[4] + (t3 \div Base)
  IN  <<r[1] % Base, t2 % Base, t3 % Base, t4>>

\* number of bits of n < 2 * Base: 0 for 0, k when 2^(k-1) <= n < 2^k
BitLen(n) ==
  CHOOSE k \in 0..(LimbBits + 1) :
    Pow2(k) > n /\ (k = 0 \/ Pow2(k - 1) <= n)

\* index of the leading 1 bit, 0 for zero
HighBit(a) ==
  IF a = DZero THEN 0
  ELSE LET t == CHOOSE k \in Limbs : a[k] # 0 /\ \A j \in Limbs : j > k => a[j] = 0
       IN  (t - 1) * LimbBits + BitLen(a[t])

\* bit n of a
Bit(a, n) == (a[(n - 1) \div LimbBits + 1] \div Pow2((n - 1) % LimbBits)) % 2

\* a has a 1 bit of index below n
AnyBelow(a, n) ==
  \E k \in Limbs :
    LET lo == (k - 1) * LimbBits IN
    IF n - 1 >= lo + LimbBits THEN a[k] # 0
    ELSE IF n - 1 > lo THEN a[k] % Pow2(n - 1 - lo) # 0
    ELSE FALSE

\* a with the bits of index below n cleared
Truncate(a, n) ==
  [k \in Limbs |->
     LET lo == (k - 1) * LimbBits IN
     IF n - 1 >= lo + LimbBits THEN 0
     ELSE IF n - 1 > lo THEN a[k] - (a[k] % Pow2(n - 1 - lo))
     ELSE a[k]]

\* a + 2^(n - 1 - 3*LimbBits)
AddBit(a, n) ==
  Norm([k \in Limbs |->
          IF k = (n - 1) \div LimbBits + 1
          THEN a[k] + Pow2((n - 1) % LimbBits) ELSE a[k]])

\* round to nearest, ties to even, at MantissaBits significant bits;
\* sticky says that the exact value has 1 bits below bit 1
RoundDouble(a, sticky) ==
  LET p == HighBit(a) IN
  IF p <= MantissaBits THEN a
  ELSE LET lsb   == p - MantissaBits + 1
           half  == Bit(a, lsb - 1) = 1
           rest  == sticky \/ AnyBelow(a, lsb - 1)
           trunc == Truncate(a, lsb)
       IN  IF half /\ (rest \/ Bit(a, lsb) = 1) THEN AddBit(trunc, lsb) ELSE trunc

\* JavaScript a + b; the set constructors bind the operands and the exact sum
\* to their values, so that each is computed once
DAdd(a, b) ==
  CHOOSE r \in {RoundDouble(s, FALSE) :
                  s \in {Norm([k \in Limbs |-> x[k] + y[k]]) : x \in {a}, y \in {b}}} : TRUE

\* JavaScript a * k for an integer literal k of at most 1000
DMul(a, k) ==
  CHOOSE r \in {RoundDouble(s, FALSE) :
                  s \in {Norm([k2 \in Limbs |-> x[k2] * k]) : x \in {a}}} : TRUE

\* Math.ceil
MathCeil(a) == a[4] + (IF a[1] # 0 \/ a[2] # 0 \/ a[3] # 0 THEN 1 ELSE 0)

\* the whole part of a double (Math.floor)
MathFloor(a) == a[4]

\* the double nearest to n / 10, its binary expansion taken by long division
NearestDouble(n) ==
  LET r3 == (n % 10) * Base
      r2 == (r3 % 10) * Base
      r1 == (r2 % 10) * Base
  IN  RoundDouble(<<r1 \div 10, r2 \div 10, r3 \div 10, n \div 10>>, r1 % 10 # 0)

\* the doubles of the times up to MaxTime tenths, computed once
DoubleOfTenths == [n \in 0..MaxTime |-> NearestDouble(n)]

\* parseFloat of the decimal string of n tenths ("0.3" for n = 3)
ParseFloat(n) == DoubleOfTenths[n]

\* JavaScript a < b
DLess(a, b) ==
  \E k \in Limbs : a[k] < b[k] /\ \A m \in Limbs : m > k => a[m] = b[m]

\* JavaScript x || d on numbers: d when x is 0 (or NaN), else x
OrElse(x, d) == IF x = DZero THEN d ELSE x

(***************************************************************************)
(* The data model (types.ts) and the initial project.                      *)
(***************************************************************************)
\* const fps of exportLocalVideo, FFmpeg revision
FpsFFmpeg == 25
\* const fps of exportLocalVideo, MediaRecorder revision
FpsRecorder == 24

Builds == {"ffmpeg", "recorder", "cloud"}

\* the revisions that export a video locally, frame by frame
LocalBuilds == {"ffmpeg", "recorder"}

Fps(b) == IF b = "recorder" THEN FpsRecorder ELSE FpsFFmpeg

\* the value of a field that is not set (visualPrompt?: string) or that an
\* object does not have
Undefined == "undefined"

\* a scene: its id, its times in tenths of a second, and the text and style
\* fields of INITIAL_SCENE (fontSize stands for the fields no operation but
\* the editor writes: fontSize, letterSpacing, lineHeight, textAlign,
\* writingMode, direction)
MakeScene(id, delay, duration) ==
  [id |-> id, delay |-> delay, duration |-> duration,
   text |-> <<"Welcome to LuminaBook. Start typing your story...">>,
   animation |-> "fade-in", fontSize |-> 48, color |-> "#ffffff",
   background |-> "#0a0a0a", fontFamily |-> "serif", language |-> "en",
   visualPrompt |-> Undefined]

\* INITIAL_SCENE: id '1', duration 2, delay 0.5
INITIAL_SCENE == MakeScene("1", 5, 20)

\* the argument of useState<VisualizerConfig>: globalTransition 1.0,
\* readingBuffer 1.5
InitialConfig ==
  [title |-> "Untitled Story", scenes |-> <<INITIAL_SCENE>>,
   globalTransition |-> 10, readingBuffer |-> 15]

(***************************************************************************)
(* The timing model, as the export loop and the playback timer compute it. *)
(***************************************************************************)
\* a scene time without the fallback of a zero duration to one second
SceneTotalTime_ZeroDuration(scene, cfg) ==
  DAdd(DAdd(OrElse(ParseFloat(scene.delay), DZero), ParseFloat(scene.duration)),
       OrElse(ParseFloat(cfg.readingBuffer), DZero))

\* a scene time that forgets the reading buffer
SceneTotalTime_NoBuffer(scene, cfg) ==
  DAdd(OrElse(ParseFloat(scene.delay), DZero),
       OrElse(ParseFloat(scene.duration), IntToDouble(1)))

\* exportLocalVideo: (scene.delay || 0) + (scene.duration || 1)
\*                   + (config.readingBuffer || 0)
SceneTotalTime(scene, cfg) ==
  DAdd(DAdd(OrElse(ParseFloat(scene.delay), DZero),
            OrElse(ParseFloat(scene.duration), IntToDouble(1))),
       OrElse(ParseFloat(cfg.readingBuffer), DZero))

\* a frame count rounded down
ExportSteps_Floor(sceneTotalTime, fps) == MathFloor(DMul(sceneTotalTime, fps))

\* a frame count rounded down, plus one
ExportSteps_FloorPlusOne(sceneTotalTime, fps) == MathFloor(DMul(sceneTotalTime, fps)) + 1

\* exportLocalVideo: Math.ceil(sceneTotalTime * fps)
ExportSteps(sceneTotalTime, fps) == MathCeil(DMul(sceneTotalTime, fps))

\* a playback wait that forgets the global transition
TotalDuration_NoTransition(scene, cfg) ==
  DMul(DAdd(DAdd(OrElse(ParseFloat(scene.delay), DZero),
                 OrElse(ParseFloat(scene.duration), IntToDouble(1))),
            OrElse(ParseFloat(cfg.readingBuffer), DZero)),
       1000)

\* the playback timer effect: ((scene.delay || 0) + (scene.duration || 1)
\*   + (config.readingBuffer || 0) + (config.globalTransition || 0)) * 1000
TotalDuration(scene, cfg) ==
  DMul(DAdd(DAdd(DAdd(OrElse(ParseFloat(scene.delay), DZero),
                      OrElse(ParseFloat(scene.duration), IntToDouble(1))),
                 OrElse(ParseFloat(cfg.readingBuffer), DZero)),
            OrElse(ParseFloat(cfg.globalTransition), DZero)),
       1000)

(***************************************************************************)
(* The state of the App component.                                         *)
(***************************************************************************)
VARIABLES
  build,             \* the revision of App that is running
  config,            \* useState config: title, scenes, globalTransition, readingBuffer
  activeSceneId,     \* useState activeSceneId: the rendered scene
  isPlaying,         \* useState isPlaying
  currentPlayIndex,  \* useState currentPlayIndex (from 0)
  playSessionId,     \* useState playSessionId
  isExporting,       \* useState isExporting
  timer,             \* the timeout armed by the playback timer effect
  jobs,              \* the activations of the async export functions, in call order
  ffmpegRef,         \* ffmpegRef.current: 0 for null, else the FFmpeg instance,
                     \* named by the number of the job that created it
  fsFrames,          \* for each FFmpeg instance, the indices n of the files
                     \* frame<n>.png in its file system
  encWriting,        \* for each FFmpeg instance, its writeFile calls in flight
  downloads,         \* artifacts handed to the browser (a.click / link.click)
  alerts,            \* failure messages shown (alert)
  exportBudget,      \* export requests the user makes in this behaviour
  crashed,           \* a render or an effect threw: React has unmounted the App
  isAnalyzing,       \* useState isAnalyzing
  analysis           \* the activation of handleAIAnalyze that awaits analyzeTextMood:
                     \* <<activeScene of the render it was called from>>, or <<>>

vars == <<build, config, activeSceneId, isPlaying, currentPlayIndex,
          playSessionId, isExporting, timer, jobs, ffmpegRef,
          fsFrames, encWriting, downloads, alerts, exportBudget, crashed,
          isAnalyzing, analysis>>

playVars == <<isPlaying, currentPlayIndex, playSessionId, timer>>
encVars == <<ffmpegRef, fsFrames, encWriting>>
aiVars == <<isAnalyzing, analysis>>

NoTimer == [armed |-> FALSE, index |-> 0, len |-> 0, totalDuration |-> DZero,
            session |-> 0]

\* a timer effect whose cleanup is missing: the timeout armed while playing
\* stays armed after playback has stopped
TimerEffect_NoCleanup(playing, index, cfg, session) ==
  IF index < Len(cfg.scenes)
  THEN [armed |-> TRUE, index |-> index, len |-> Len(cfg.scenes),
        totalDuration |-> TotalDuration(cfg.scenes[index + 1], cfg),
        session |-> session]
  ELSE NoTimer

\* the playback timer effect: its cleanup clears the timeout armed before,
\* its body arms one while playing; the callback closes over
\* currentPlayIndex and config.scenes.length; session is the playSessionId
\* of the render that armed it (the callback does not read it)
TimerEffect(playing, index, cfg, session) ==
  IF playing /\ index < Len(cfg.scenes)
  THEN [armed |-> TRUE, index |-> index, len |-> Len(cfg.scenes),
        totalDuration |-> TotalDuration(cfg.scenes[index + 1], cfg),
        session |-> session]
  ELSE NoTimer

\* the sync effect: if (isPlaying) setActiveSceneId(config.scenes[currentPlayIndex].id)
SyncEffect(playing, index, cfg, active) ==
  IF playing /\ index < Len(cfg.scenes) THEN cfg.scenes[index + 1].id ELSE active

\* const activeScene = config.scenes.find(s => s.id === activeSceneId) || config.scenes[0]
ActiveScene ==
  IF \E k \in 1..Len(config.scenes) : config.scenes[k].id = activeSceneId
  THEN config.scenes[CHOOSE k \in 1..Len(config.scenes) :
                       /\ config.scenes[k].id = activeSceneId
                       /\ \A m \in 1..(k - 1) : config.scenes[m].id # activeSceneId]
  ELSE config.scenes[1]

(***************************************************************************)
(* Playback (togglePlayback and the two effects).  The effects run after   *)
(* the render that follows a state change and before the next event, so    *)
(* each action applies them to the state it produces.                      *)
(***************************************************************************)
\* a start that does not rewind
TogglePlayback_KeepsIndex ==
  /\ IF ~isPlaying
     THEN /\ playSessionId < MaxSessions
          /\ currentPlayIndex' = currentPlayIndex
          /\ playSessionId' = playSessionId + 1
          /\ isPlaying' = TRUE
     ELSE /\ isPlaying' = FALSE
          /\ UNCHANGED <<currentPlayIndex, playSessionId>>
  /\ activeSceneId' = SyncEffect(isPlaying', currentPlayIndex', config, activeSceneId)
  /\ timer' = TimerEffect(isPlaying', currentPlayIndex', config, playSessionId')
  /\ UNCHANGED <<build, exportBudget, crashed, aiVars, config, isExporting, jobs, encVars,
                 downloads, alerts>>

\* a start that does not open a new session
TogglePlayback_SameSession ==
  /\ IF ~isPlaying
     THEN /\ playSessionId < MaxSessions
          /\ currentPlayIndex' = 0
          /\ playSessionId' = playSessionId
          /\ isPlaying' = TRUE
     ELSE /\ isPlaying' = FALSE
          /\ UNCHANGED <<currentPlayIndex, playSessionId>>
  /\ activeSceneId' = SyncEffect(isPlaying', currentPlayIndex', config, activeSceneId)
  /\ timer' = TimerEffect(isPlaying', currentPlayIndex', config, playSessionId')
  /\ UNCHANGED <<build, exportBudget, crashed, aiVars, config, isExporting, jobs, encVars,
                 downloads, alerts>>

TogglePlayback ==
  /\ IF ~isPlaying
     THEN /\ playSessionId < MaxSessions
          /\ currentPlayIndex' = 0
          /\ playSessionId' = playSessionId + 1
          /\ isPlaying' = TRUE
     ELSE /\ isPlaying' = FALSE
          /\ UNCHANGED <<currentPlayIndex, playSessionId>>
  /\ activeSceneId' = SyncEffect(isPlaying', currentPlayIndex', config, activeSceneId)
  /\ timer' = TimerEffect(isPlaying', currentPlayIndex', config, playSessionId')
  /\ UNCHANGED <<build, exportBudget, crashed, aiVars, config, isExporting, jobs, encVars,
                 downloads, alerts>>

\* a callback that starts over after the last scene
TimerFire_Wraps ==
  /\ timer.armed
  /\ IF timer.index < timer.len - 1
     THEN /\ currentPlayIndex' = currentPlayIndex + 1
          /\ isPlaying' = isPlaying
     ELSE /\ isPlaying' = isPlaying
          /\ currentPlayIndex' = 0
  /\ activeSceneId' = SyncEffect(isPlaying', currentPlayIndex', config, activeSceneId)
  /\ timer' = TimerEffect(isPlaying', currentPlayIndex', config, playSessionId)
  /\ UNCHANGED <<build, exportBudget, crashed, aiVars, config, playSessionId, isExporting, jobs, encVars, downloads, alerts>>

\* the callback of the armed timeout
TimerFire ==
  /\ timer.armed
  /\ IF timer.index < timer.len - 1
     THEN /\ currentPlayIndex' = currentPlayIndex + 1
          /\ isPlaying' = isPlaying
     ELSE /\ isPlaying' = FALSE
          /\ currentPlayIndex' = currentPlayIndex
  /\ activeSceneId' = SyncEffect(isPlaying', currentPlayIndex', config, activeSceneId)
  /\ timer' = TimerEffect(isPlaying', currentPlayIndex', config, playSessionId)
  /\ UNCHANGED <<build, exportBudget, crashed, aiVars, config, playSessionId, isExporting, jobs, encVars, downloads, alerts>>

(***************************************************************************)
(* The editor: the number fields of EditorPanel and the two range inputs   *)
(* of the global settings.  A field's text is the decimal string of a      *)
(* number of tenths, or not a number at all (the emptied field).           *)
(***************************************************************************)
NumberInputs ==
  [kind : {"number"}, tenths : 0..MaxTenths] \cup {[kind |-> "empty", tenths |-> 0]}

\* an update that appends the record when no scene has its id
UpdateScene_Appends(cfg, updated) ==
  IF \E k \in 1..Len(cfg.scenes) : cfg.scenes[k].id = updated.id
  THEN [cfg EXCEPT !.scenes =
          [k \in 1..Len(cfg.scenes) |->
             IF cfg.scenes[k].id = updated.id THEN updated ELSE cfg.scenes[k]]]
  ELSE [cfg EXCEPT !.scenes = Append(cfg.scenes, updated)]

\* updateScene: replace the scene of the same id
UpdateScene(cfg, updated) ==
  [cfg EXCEPT !.scenes =
     [k \in 1..Len(cfg.scenes) |->
        IF cfg.scenes[k].id = updated.id THEN updated ELSE cfg.scenes[k]]]

\* the effects after a change of config: the timer effect depends on
\* config.scenes, globalTransition and readingBuffer; the sync effect depends
\* on config.scenes in the cloud revision only; newScenes says that the
\* update built a new scenes array
ConfigEffects(newScenes) ==
  /\ timer' = TimerEffect(isPlaying, currentPlayIndex, config', playSessionId)
  /\ activeSceneId' = IF build = "cloud" /\ newScenes
                      THEN SyncEffect(isPlaying, currentPlayIndex, config', activeSceneId)
                      ELSE activeSceneId
  /\ UNCHANGED <<build, exportBudget, crashed, isPlaying, currentPlayIndex, playSessionId, isExporting,
                 jobs, encVars, downloads, alerts>>

\* handleNumberChange(key, val) -> handleChange -> onChange({...scene, [key]: value})
HandleNumberChange(key, val) ==
  LET value == IF val.kind = "number" THEN val.tenths ELSE 0
  IN  /\ config' = UpdateScene(config, [ActiveScene EXCEPT ![key] = value])
      /\ ConfigEffects(TRUE)
      /\ UNCHANGED aiVars

\* onChange of the Global Transition range input
SetGlobalTransition(tenths) ==
  /\ config' = [config EXCEPT !.globalTransition = tenths]
  /\ ConfigEffects(FALSE)
  /\ UNCHANGED aiVars

\* onChange of the Reading Buffer range input
SetReadingBuffer(tenths) ==
  /\ config' = [config EXCEPT !.readingBuffer = tenths]
  /\ ConfigEffects(FALSE)
  /\ UNCHANGED aiVars

\* handleChange(key, value) of a select, the text area or a colour input:
\* onChange({...scene, [key]: value})
HandleChange(key, value) ==
  /\ config' = UpdateScene(config, [ActiveScene EXCEPT ![key] = value])
  /\ ConfigEffects(TRUE)
  /\ UNCHANGED aiVars

(***************************************************************************)
(* The scene store: addScene, deleteScene, the text import and the         *)
(* selection of a scene.  A handler reads config and activeSceneId of the  *)
(* render it was created in; the function passed to setConfig is applied   *)
(* to the store as it is when the update is processed.                     *)
(***************************************************************************)
\* outcomes of Math.random().toString(36).substr(2, 9)
RandomIds == {"k3f9x", "x7q2m"}

\* `file-${i}-${Date.now()}`
FileId(i, now) == "file-" \o ToString(i) \o "-" \o ToString(now)

\* the render that follows a change throws: activeScene is undefined when the
\* store is empty (PreviewCanvas and EditorPanel read its fields), and the
\* effects read config.scenes[currentPlayIndex] while playing
RenderThrows(cfg, playing, index) ==
  cfg.scenes = <<>> \/ (playing /\ index >= Len(cfg.scenes))

\* setConfig and setActiveSceneId of one event, the render and its effects
StoreChange(cfg, active) ==
  /\ config' = cfg
  /\ IF RenderThrows(cfg, isPlaying, currentPlayIndex)
     THEN /\ crashed' = TRUE
          /\ timer' = NoTimer
          /\ activeSceneId' = active
     ELSE /\ crashed' = crashed
          /\ timer' = TimerEffect(isPlaying, currentPlayIndex, cfg, playSessionId)
          /\ activeSceneId' = IF build = "cloud"
                              THEN SyncEffect(isPlaying, currentPlayIndex, cfg, active)
                              ELSE active
  /\ UNCHANGED <<build, exportBudget, aiVars, isPlaying, currentPlayIndex, playSessionId,
                 isExporting, jobs, encVars, downloads, alerts>>

\* the function passed to setConfig threw (filtered[0] is undefined): the
\* render in which React applies it fails
UpdaterThrows ==
  /\ crashed' = TRUE
  /\ timer' = NoTimer
  /\ UNCHANGED <<build, exportBudget, aiVars, config, activeSceneId, isPlaying, currentPlayIndex,
                 playSessionId, isExporting, jobs, encVars, downloads, alerts>>

\* the text of a new scene: activeScene.language === 'zh' ? ... : "New chapter begins..."
\* (the Chinese placeholder is written in pinyin here)
PlaceholderText(language) ==
  IF language = "zh" THEN <<"Xin pianzhang kaishi le...">> ELSE <<"New chapter begins...">>

\* a new scene that keeps the text of the active scene
NewScene_KeepsText(active, newId) == [active EXCEPT !.id = newId]

\* const newScene = {...activeScene, id: newId, text: ...}
NewScene(active, newId) ==
  [active EXCEPT !.id = newId, !.text = PlaceholderText(active.language)]

\* addScene: newId is the outcome of Math.random
AddScene(newId) ==
  /\ Len(config.scenes) < MaxScenes
  /\ StoreChange([config EXCEPT !.scenes = Append(@, NewScene(ActiveScene, newId))],
                 newId)

\* prev.scenes.filter(s => s.id !== id)
DeleteFilter(scenes, id) == SelectSeq(scenes, LAMBDA s : s.id # id)

\* deleteScene(id), called from the current render
DeleteScene(id) ==
  IF Len(config.scenes) <= 1 THEN UNCHANGED vars
  ELSE LET filtered == DeleteFilter(config.scenes, id)
       IN  IF activeSceneId = id /\ filtered = <<>> THEN UpdaterThrows
           ELSE StoreChange([config EXCEPT !.scenes = filtered],
                            IF activeSceneId = id THEN filtered[1].id ELSE activeSceneId)

\* deleteScene(id1) and deleteScene(id2) called from the same render, before
\* React has applied the first: both read config.scenes.length and
\* activeSceneId of that render, and the two functions are applied in order
DeleteSceneTwice(id1, id2) ==
  IF Len(config.scenes) <= 1 THEN UNCHANGED vars
  ELSE LET first   == DeleteFilter(config.scenes, id1)
           second  == DeleteFilter(first, id2)
           active1 == IF activeSceneId = id1 THEN first[1].id ELSE activeSceneId
       IN  IF \/ (activeSceneId = id1 /\ first = <<>>)
              \/ (activeSceneId = id2 /\ second = <<>>)
           THEN UpdaterThrows
           ELSE StoreChange([config EXCEPT !.scenes = second],
                            IF activeSceneId = id2 THEN second[1].id ELSE active1)

\* A text is the sequence of its pieces: single white-space characters,
\* line feeds, and runs of other characters ("han" is a run that holds a
\* character of the range \u4e00-\u9fa5).
WhiteSpace == {" ", "\t", "\r", "\n"}

HanRuns == {"han"}

\* String.prototype.trim: what lies between the first and the last piece
\* that is not white space
Trim(t) ==
  LET solid == {k \in 1..Len(t) : t[k] \notin WhiteSpace}
  IN  IF solid = {} THEN <<>>
      ELSE SubSeq(t, CHOOSE k \in solid : \A m \in solid : k <= m,
                     CHOOSE k \in solid : \A m \in solid : k >= m)

\* content.split('\n'): the pieces between consecutive line feeds
SplitLines(content) ==
  LET feeds == SelectSeq([k \in 1..Len(content) |-> k], LAMBDA k : content[k] = "\n")
      from(i) == IF i = 1 THEN 1 ELSE feeds[i - 1] + 1
      to(i)   == IF i = Len(feeds) + 1 THEN Len(content) ELSE feeds[i] - 1
  IN  [i \in 1..(Len(feeds) + 1) |-> SubSeq(content, from(i), to(i))]

\* /[\u4e00-\u9fa5]/.test(content)
IsLikelyChinese(content) == \E k \in 1..Len(content) : content[k] \in HanRuns

\* a filter that keeps the blank lines
Paragraphs_KeepsBlank(content) == SplitLines(content)

\* content.split('\n').filter(p => p.trim() !== '')
Paragraphs(content) == SelectSeq(SplitLines(content), LAMBDA p : Trim(p) # <<>>)

\* paragraphs.map((p, i) => ({...INITIAL_SCENE, id, text: p.trim(), language, fontFamily}))
ScenesOfParagraphs(paragraphs, zh, now) ==
  [i \in 1..Len(paragraphs) |->
     [INITIAL_SCENE EXCEPT !.id = FileId(i - 1, now),
                           !.text = Trim(paragraphs[i]),
                           !.language = IF zh THEN "zh" ELSE "en",
                           !.fontFamily = IF zh THEN "zh-serif" ELSE "serif"]]

\* the scenes of a file (the set constructor binds the paragraphs to their
\* value, so that the split is computed once)
ImportedScenes(content, now) ==
  CHOOSE newScenes \in {ScenesOfParagraphs(paragraphs, IsLikelyChinese(content), now) :
                          paragraphs \in {Paragraphs(content)}} : TRUE

\* reader.onload of handleFileUpload, for a file of the given content: with
\* no paragraph setConfig is called with no scenes and newScenes[0].id throws
\* before setActiveSceneId
HandleFileUpload(content, now) ==
  \E newScenes \in {ImportedScenes(content, now)} :
    StoreChange([config EXCEPT !.scenes = newScenes],
                IF newScenes = <<>> THEN activeSceneId ELSE newScenes[1].id)

\* the file of n lines "a"
RECURSIVE FileOfParagraphs(_)
FileOfParagraphs(n) ==
  IF n = 0 THEN <<>>
  ELSE IF n = 1 THEN <<"a">>
  ELSE FileOfParagraphs(n - 1) \o <<"\n", "a">>

\* onSelect of SceneManager: setActiveSceneId(id)
SelectScene(id) ==
  /\ activeSceneId' = id
  /\ UNCHANGED <<build, exportBudget, crashed, aiVars, config, playVars, isExporting, jobs,
                 encVars, downloads, alerts>>

(***************************************************************************)
(* The style suggestion: handleAIAnalyze and analyzeTextMood.  The button  *)
(* is disabled while isAnalyzing, so one call is in flight at most.  The   *)
(* function closes over activeScene of the render it was called from.      *)
(* analyzeTextMood returns null when the request or JSON.parse throws,     *)
(* else the parsed value; a field that the value lacks reads as undefined  *)
(* (a parsed number or string lacks all of them).                          *)
(***************************************************************************)
\* the value null, among the objects a call returns
Null == [null |-> TRUE]

\* the values analyzeTextMood returns: null, a suggestion with every field,
\* one with the colour only, and a value without any of the fields
FullSuggestion ==
  [colorTheme |-> "#102030", fontStyle |-> "sans", suggestedAnimation |-> "blur-in",
   visualPrompt |-> "misty harbour"]

SuggestionResults ==
  {Null, FullSuggestion,
   [FullSuggestion EXCEPT !.fontStyle = Undefined, !.suggestedAnimation = Undefined,
                          !.visualPrompt = Undefined],
   [colorTheme |-> Undefined, fontStyle |-> Undefined, suggestedAnimation |-> Undefined,
    visualPrompt |-> Undefined]}

\* JavaScript x || d on strings and undefined
OrString(x, d) == IF x = Undefined \/ x = "" THEN d ELSE x

\* the record handed to updateScene
\* App.tsx:     {...activeScene, color: result.colorTheme, fontFamily: font,
\*               animation: result.suggestedAnimation, visualPrompt: result.visualPrompt}
\*              with font the zh variant of serif and sans for a Chinese scene
\* part_000/2:  {...activeScene, background: result.colorTheme || activeScene.background,
\*               fontFamily: result.fontStyle || ..., animation: ..., visualPrompt: ...}
SuggestedScene(b, scene, result) ==
  IF b = "cloud"
  THEN [scene EXCEPT
          !.color = result.colorTheme,
          !.fontFamily = IF scene.language = "zh" /\ result.fontStyle = "serif" THEN "zh-serif"
                         ELSE IF scene.language = "zh" /\ result.fontStyle = "sans" THEN "zh-sans"
                         ELSE result.fontStyle,
          !.animation = result.suggestedAnimation,
          !.visualPrompt = result.visualPrompt]
  ELSE [scene EXCEPT
          !.background = OrString(result.colorTheme, scene.background),
          !.fontFamily = OrString(result.fontStyle, scene.fontFamily),
          !.animation = OrString(result.suggestedAnimation, scene.animation),
          !.visualPrompt = OrString(result.visualPrompt, scene.visualPrompt)]

\* handleAIAnalyze, up to its await (the local revisions return at once when
\* the text of the scene is blank)
HandleAIAnalyze ==
  /\ ~isAnalyzing
  /\ IF build \in LocalBuilds /\ Trim(ActiveScene.text) = <<>>
     THEN UNCHANGED aiVars
     ELSE isAnalyzing' = TRUE /\ analysis' = <<ActiveScene>>
  /\ UNCHANGED <<build, exportBudget, crashed, config, activeSceneId, playVars, isExporting,
                 jobs, encVars, downloads, alerts>>

\* analyzeTextMood has returned: if (result) updateScene({...}); setIsAnalyzing(false)
AnalysisSettles(result) ==
  /\ analysis # <<>>
  /\ isAnalyzing' = FALSE
  /\ analysis' = <<>>
  /\ config' = IF result = Null THEN config
               ELSE UpdateScene(config, SuggestedScene(build, analysis[1], result))
  /\ ConfigEffects(result # Null)

(***************************************************************************)
(* Export jobs.  A job is one activation of exportLocalVideo, exportImage  *)
(* or exportVideo; pc names the await it is suspended at.  The function    *)
(* closes over the config of the render it was called from (cfg).          *)
(*   video, ffmpeg:   load, settle, capture, write, exec, read, cleanup    *)
(*   video, recorder: settle, capture, raf, stopping                       *)
(*   image:           snapshot                                             *)
(* and, once the function has run to its end,                              *)
(*   done      it finished normally                                        *)
(*   failed    its catch block ran                                         *)
(*   escaped   an exception left it outside any try block                  *)
(*   returned  it returned early                                           *)
(* "capture" covers the awaits from the frame delay to the bitmap          *)
(* (setTimeout, toPng, fetch, arrayBuffer | toCanvas): the function        *)
(* changes no state between them.                                          *)
(***************************************************************************)
Ended == {"done", "failed", "escaped", "returned"}

NewJob(kind, pc) ==
  [kind |-> kind, pc |-> pc, cfg |-> config,
   i |-> 0,                    \* loop variable i, plus 1
   step |-> 0,                 \* loop variable step / frame
   steps |-> 0,                \* const steps / totalFrames
   sceneTotalTime |-> DZero,   \* const sceneTotalTime
   frameCount |-> 0,           \* let frameCount; frames drawn, for the recorder
   caps |-> <<>>,              \* frames appended for each finished scene
   ffmpeg |-> 0,               \* const ffmpeg: the FFmpeg instance of the job
   encSeen |-> 0,              \* frames handed to the job's encoder since the job began
   finalized |-> FALSE,        \* ffmpeg.exec / mediaRecorder.stop was called
   downloaded |-> FALSE,       \* the artifact was handed to the browser
   failedAt |-> "none"]        \* the await whose rejection the catch block caught

Active(j) == jobs[j].pc \notin Ended

\* a job that ends by an exception: its loop variables are gone; what it did
\* to the encoder and to the browser stays on record
Abandon(job, pc, at) ==
  [job EXCEPT !.pc = pc, !.failedAt = at, !.i = 0, !.step = 0, !.steps = 0,
              !.sceneTotalTime = DZero, !.caps = <<>>, !.encSeen = 0]

ActiveJobs == {j \in 1..Len(jobs) : Active(j)}

\* the head of the scene loop, for (let i = ...; i < config.scenes.length; ...):
\* the job at scene i (from 1), or past the last scene at the finalize call
AtScene(job, i) ==
  IF i <= Len(job.cfg.scenes)
  THEN [job EXCEPT !.pc = "settle", !.i = i, !.step = 0, !.steps = 0]
  ELSE [job EXCEPT !.pc = IF build = "ffmpeg" THEN "exec" ELSE "stopping",
                   !.i = i, !.finalized = TRUE]

\* setActiveSceneId(scene.id) at the head of the scene loop
ActiveAtScene(job, i) ==
  IF i <= Len(job.cfg.scenes) THEN job.cfg.scenes[i].id ELSE activeSceneId

\* the end of one frame of scene job.i: step++ and the loop tests
NextFrame(job) ==
  IF job.step + 1 < job.steps
  THEN [job EXCEPT !.pc = "capture", !.step = job.step + 1]
  ELSE AtScene([job EXCEPT !.caps = Append(job.caps, job.step + 1)], job.i + 1)

ActiveAfterFrame(job) ==
  IF job.step + 1 < job.steps THEN activeSceneId ELSE ActiveAtScene(job, job.i + 1)

\* exportLocalVideo, up to its first await
ExportLocalVideo ==
  /\ build \in LocalBuilds
  /\ Len(jobs) < exportBudget
  /\ isExporting' = TRUE
  /\ IF build = "ffmpeg"
     THEN \* const ffmpeg = await loadFFmpeg(): the instance of
          \* ffmpegRef.current, or a new FFmpeg() that starts loading
          /\ jobs' = Append(jobs, [NewJob("video", "load") EXCEPT !.ffmpeg =
                                    IF ffmpegRef # 0 THEN ffmpegRef ELSE Len(jobs) + 1])
          /\ UNCHANGED <<activeSceneId, playVars>>
     ELSE \* setIsPlaying(false); the canvas, its context, the recorder;
          \* mediaRecorder.start(); the first scene
          /\ isPlaying' = FALSE
          /\ timer' = TimerEffect(FALSE, currentPlayIndex, config, playSessionId)
          /\ UNCHANGED <<currentPlayIndex, playSessionId>>
          /\ \E outcome \in {"ok", "noContext", "recorderThrows"} :
               CASE outcome = "noContext" ->
                      \* if (!ctx) return
                      /\ jobs' = Append(jobs, NewJob("video", "returned"))
                      /\ UNCHANGED activeSceneId
                 [] outcome = "recorderThrows" ->
                      \* captureStream, new MediaRecorder or start throws
                      /\ jobs' = Append(jobs, NewJob("video", "escaped"))
                      /\ UNCHANGED activeSceneId
                 [] OTHER ->
                      /\ jobs' = Append(jobs, AtScene(NewJob("video", "settle"), 1))
                      /\ activeSceneId' = ActiveAtScene(NewJob("video", "settle"), 1)
  /\ UNCHANGED <<build, exportBudget, crashed, aiVars, config, encVars, downloads, alerts>>

\* an export that rewinds playback when it stops it
LoadResolve_Rewinds(j) ==
  /\ jobs[j].kind = "video" /\ jobs[j].pc = "load"
  /\ ffmpegRef' = IF jobs[j].ffmpeg = j THEN j ELSE ffmpegRef
  /\ isPlaying' = FALSE
  /\ currentPlayIndex' = 0
  /\ timer' = TimerEffect(FALSE, currentPlayIndex, config, playSessionId)
  /\ jobs' = [jobs EXCEPT ![j] = AtScene(jobs[j], 1)]
  /\ activeSceneId' = ActiveAtScene(jobs[j], 1)
  /\ UNCHANGED <<build, exportBudget, crashed, aiVars, config, playSessionId, isExporting,
                 fsFrames, encWriting, downloads, alerts>>

\* loadFFmpeg resolved: the try block up to the settle delay of the first scene
LoadResolve(j) ==
  /\ jobs[j].kind = "video" /\ jobs[j].pc = "load"
  /\ ffmpegRef' = IF jobs[j].ffmpeg = j THEN j ELSE ffmpegRef
  /\ isPlaying' = FALSE
  /\ timer' = TimerEffect(FALSE, currentPlayIndex, config, playSessionId)
  /\ jobs' = [jobs EXCEPT ![j] = AtScene(jobs[j], 1)]
  /\ activeSceneId' = ActiveAtScene(jobs[j], 1)
  /\ UNCHANGED <<build, exportBudget, crashed, aiVars, config, currentPlayIndex, playSessionId, isExporting,
                 fsFrames, encWriting, downloads, alerts>>

\* loadFFmpeg rejected (ffmpeg.load or toBlobURL failed): the await is outside
\* the try block, so neither catch nor finally runs
LoadReject(j) ==
  /\ jobs[j].kind = "video" /\ jobs[j].pc = "load"
  /\ jobs[j].ffmpeg = j
  /\ jobs' = [jobs EXCEPT ![j] = Abandon(jobs[j], "escaped", "load")]
  /\ UNCHANGED <<build, exportBudget, crashed, aiVars, config, activeSceneId, playVars, isExporting,
                 encVars, downloads, alerts>>

\* the settle delay of 600 ms is over: sceneTotalTime, steps, the first frame
SettleDone(j) ==
  /\ jobs[j].kind = "video" /\ jobs[j].pc = "settle"
  /\ LET job   == jobs[j]
         total == SceneTotalTime(job.cfg.scenes[job.i], job.cfg)
         steps == ExportSteps(total, Fps(build))
         timed == [job EXCEPT !.sceneTotalTime = total, !.steps = steps]
     IN  IF 0 < steps
         THEN /\ jobs' = [jobs EXCEPT ![j] = [timed EXCEPT !.pc = "capture"]]
              /\ UNCHANGED activeSceneId
         ELSE /\ jobs' = [jobs EXCEPT ![j] =
                            AtScene([timed EXCEPT !.caps = Append(job.caps, 0)], job.i + 1)]
              /\ activeSceneId' = ActiveAtScene(job, job.i + 1)
  /\ UNCHANGED <<build, exportBudget, crashed, aiVars, config, playVars, isExporting, encVars,
                 downloads, alerts>>

\* a catch block that leaves the exporting flag set
CatchAndFinally_KeepsExporting(j, at) ==
  /\ jobs' = [jobs EXCEPT ![j] = Abandon(jobs[j], "failed", at)]
  /\ alerts' = alerts + 1
  /\ isExporting' = isExporting

\* the catch block (alert) and the finally block of exportLocalVideo; the
\* recorder revision calls setIsExporting(false) in the catch block itself
CatchAndFinally(j, at) ==
  /\ jobs' = [jobs EXCEPT ![j] = Abandon(jobs[j], "failed", at)]
  /\ alerts' = alerts + 1
  /\ isExporting' = FALSE

\* the bitmap of the rendered scene is there
CaptureResolve(j) ==
  /\ jobs[j].kind = "video" /\ jobs[j].pc = "capture"
  /\ IF build = "ffmpeg"
     THEN \* ffmpeg.writeFile(`frame${frameCount}.png`, ...) is called
          /\ jobs' = [k \in 1..Len(jobs) |->
                        IF k = j THEN [jobs[k] EXCEPT !.pc = "write",
                                                      !.encSeen = jobs[k].encSeen + 1]
                        ELSE IF Active(k) /\ jobs[k].ffmpeg = jobs[j].ffmpeg
                        THEN [jobs[k] EXCEPT !.encSeen = jobs[k].encSeen + 1]
                        ELSE jobs[k]]
          /\ encWriting' = [encWriting EXCEPT ![jobs[j].ffmpeg] = @ + 1]
     ELSE \* ctx.clearRect, ctx.drawImage on the job's own canvas, then
          \* await requestAnimationFrame
          /\ jobs' = [jobs EXCEPT ![j].pc = "raf",
                                  ![j].encSeen = jobs[j].encSeen + 1,
                                  ![j].frameCount = jobs[j].frameCount + 1]
          /\ UNCHANGED encWriting
  /\ UNCHANGED <<build, exportBudget, crashed, aiVars, config, activeSceneId, playVars, isExporting,
                 ffmpegRef, fsFrames, downloads, alerts>>

\* toPng / fetch / toCanvas rejected
CaptureReject(j) ==
  /\ jobs[j].kind = "video" /\ jobs[j].pc = "capture"
  /\ CatchAndFinally(j, "capture")
  /\ UNCHANGED <<build, exportBudget, crashed, aiVars, config, activeSceneId, playVars, encVars, downloads>>

\* ffmpeg.writeFile resolved: frameCount++
WriteResolve(j) ==
  /\ jobs[j].kind = "video" /\ jobs[j].pc = "write"
  /\ fsFrames' = [fsFrames EXCEPT ![jobs[j].ffmpeg] = @ \cup {jobs[j].frameCount}]
  /\ encWriting' = [encWriting EXCEPT ![jobs[j].ffmpeg] = @ - 1]
  /\ LET job == [jobs[j] EXCEPT !.frameCount = jobs[j].frameCount + 1]
     IN  /\ jobs' = [jobs EXCEPT ![j] = NextFrame(job)]
         /\ activeSceneId' = ActiveAfterFrame(job)
  /\ UNCHANGED <<build, exportBudget, crashed, aiVars, config, playVars, isExporting, ffmpegRef, downloads, alerts>>

\* ffmpeg.writeFile rejected
WriteReject(j) ==
  /\ jobs[j].kind = "video" /\ jobs[j].pc = "write"
  /\ encWriting' = [encWriting EXCEPT ![jobs[j].ffmpeg] = @ - 1]
  /\ CatchAndFinally(j, "write")
  /\ UNCHANGED <<build, exportBudget, crashed, aiVars, config, activeSceneId, playVars, ffmpegRef, fsFrames, downloads>>

\* requestAnimationFrame called back (recorder revision)
RafResolve(j) ==
  /\ jobs[j].kind = "video" /\ jobs[j].pc = "raf"
  /\ jobs' = [jobs EXCEPT ![j] = NextFrame(jobs[j])]
  /\ activeSceneId' = ActiveAfterFrame(jobs[j])
  /\ UNCHANGED <<build, exportBudget, crashed, aiVars, config, playVars, isExporting, encVars,
                 downloads, alerts>>

\* ffmpeg.exec resolved: await ffmpeg.readFile('output.mp4')
ExecResolve(j) ==
  /\ jobs[j].kind = "video" /\ jobs[j].pc = "exec"
  /\ jobs' = [jobs EXCEPT ![j].pc = "read"]
  /\ UNCHANGED <<build, exportBudget, crashed, aiVars, config, activeSceneId, playVars, isExporting,
                 encVars, downloads, alerts>>

ExecReject(j) ==
  /\ jobs[j].kind = "video" /\ jobs[j].pc = "exec"
  /\ CatchAndFinally(j, "exec")
  /\ UNCHANGED <<build, exportBudget, crashed, aiVars, config, activeSceneId, playVars, encVars, downloads>>

\* ffmpeg.readFile resolved: the blob is downloaded (a.click()), then the
\* frame files are deleted
ReadResolve(j) ==
  /\ jobs[j].kind = "video" /\ jobs[j].pc = "read"
  /\ jobs' = [jobs EXCEPT ![j].pc = "cleanup", ![j].downloaded = TRUE]
  /\ downloads' = downloads + 1
  /\ UNCHANGED <<build, exportBudget, crashed, aiVars, config, activeSceneId, playVars, isExporting,
                 encVars, alerts>>

ReadReject(j) ==
  /\ jobs[j].kind = "video" /\ jobs[j].pc = "read"
  /\ CatchAndFinally(j, "read")
  /\ UNCHANGED <<build, exportBudget, crashed, aiVars, config, activeSceneId, playVars, encVars, downloads>>

\* the deleteFile calls are through (a rejection of one is swallowed by its
\* .catch): the files frame0 .. frame<frameCount-1> are gone; finally
CleanupDone(j) ==
  /\ jobs[j].kind = "video" /\ jobs[j].pc = "cleanup"
  /\ fsFrames' = [fsFrames EXCEPT ![jobs[j].ffmpeg] =
                    {n \in @ : n >= jobs[j].frameCount}]
  /\ jobs' = [jobs EXCEPT ![j].pc = "done"]
  /\ isExporting' = FALSE
  /\ UNCHANGED <<build, exportBudget, crashed, aiVars, config, activeSceneId, playVars, ffmpegRef, encWriting, downloads, alerts>>

\* mediaRecorder.onstop (recorder revision): the blob is downloaded,
\* setIsExporting(false)
RecorderStop(j) ==
  /\ jobs[j].kind = "video" /\ jobs[j].pc = "stopping"
  /\ jobs' = [jobs EXCEPT ![j].pc = "done", ![j].downloaded = TRUE]
  /\ downloads' = downloads + 1
  /\ isExporting' = FALSE
  /\ UNCHANGED <<build, exportBudget, crashed, aiVars, config, activeSceneId, playVars, encVars, alerts>>

\* exportImage, up to its await of toPng / toCanvas
ExportImage ==
  /\ Len(jobs) < exportBudget
  /\ isExporting' = TRUE
  /\ jobs' = Append(jobs, NewJob("image", "snapshot"))
  /\ UNCHANGED <<build, exportBudget, crashed, aiVars, config, activeSceneId, playVars, encVars, downloads, alerts>>

\* the snapshot is there: link.click(); finally
SnapshotResolve(j) ==
  /\ jobs[j].kind = "image" /\ jobs[j].pc = "snapshot"
  /\ jobs' = [jobs EXCEPT ![j].pc = "done", ![j].downloaded = TRUE]
  /\ downloads' = downloads + 1
  /\ isExporting' = FALSE
  /\ UNCHANGED <<build, exportBudget, crashed, aiVars, config, activeSceneId, playVars, encVars, alerts>>

\* a failed snapshot whose finally block is missing
SnapshotReject_NoFinally(j) ==
  /\ jobs[j].kind = "image" /\ jobs[j].pc = "snapshot"
  /\ jobs' = [jobs EXCEPT ![j] = Abandon(jobs[j], "failed", "snapshot")]
  /\ UNCHANGED <<build, exportBudget, crashed, aiVars, config, activeSceneId, playVars, encVars, downloads,
                 alerts, isExporting>>

\* the snapshot failed: console.error; finally
SnapshotReject(j) ==
  /\ jobs[j].kind = "image" /\ jobs[j].pc = "snapshot"
  /\ jobs' = [jobs EXCEPT ![j] = Abandon(jobs[j], "failed", "snapshot")]
  /\ isExporting' = FALSE
  /\ UNCHANGED <<build, exportBudget, crashed, aiVars, config, activeSceneId, playVars, encVars, downloads,
                 alerts>>

\* one step of an export job: the await it is suspended at settles
JobStep(j) ==
  \/ LoadResolve(j)
  \/ LoadReject(j)
  \/ SettleDone(j)
  \/ CaptureResolve(j)
  \/ CaptureReject(j)
  \/ WriteResolve(j)
  \/ WriteReject(j)
  \/ RafResolve(j)
  \/ ExecResolve(j)
  \/ ExecReject(j)
  \/ ReadResolve(j)
  \/ ReadReject(j)
  \/ CleanupDone(j)
  \/ RecorderStop(j)
  \/ SnapshotResolve(j)
  \/ SnapshotReject(j)

(***************************************************************************)
(* The state after the first render, and the specifications.               *)
(***************************************************************************)
InitApp ==
  /\ activeSceneId = config.scenes[1].id
  /\ isPlaying = FALSE
  /\ currentPlayIndex = 0
  /\ playSessionId = 0
  /\ isExporting = FALSE
  /\ timer = NoTimer
  /\ jobs = <<>>
  /\ ffmpegRef = 0
  /\ fsFrames = [e \in 1..(MaxExports + 1) |-> {}]
  /\ encWriting = [e \in 1..(MaxExports + 1) |-> 0]
  /\ downloads = 0
  /\ alerts = 0
  /\ crashed = FALSE
  /\ isAnalyzing = FALSE
  /\ analysis = <<>>

\* Projects of short scenes (0.1 s and 0.2 s of scene time, no reading buffer)
OneSceneProject ==
  [InitialConfig EXCEPT !.scenes = <<MakeScene("1", 0, 1)>>, !.readingBuffer = 0]

TwoSceneProject ==
  [InitialConfig EXCEPT !.scenes = <<MakeScene("1", 0, 1), MakeScene("2", 1, 1)>>,
                        !.readingBuffer = 0]

JobNext ==
  \/ ExportLocalVideo
  \/ ExportImage
  \/ \E j \in 1..Len(jobs) : JobStep(j)

\* Spec: overlapping export jobs.  The user requests up to MaxExports
\* exports, each at any moment, of a project of one scene.
Init ==
  /\ build \in LocalBuilds
  /\ config = OneSceneProject
  /\ exportBudget = MaxExports
  /\ InitApp

Next == JobNext

Spec == Init /\ [][Next]_vars

\* SpecPlay: playback and export.  The user toggles playback and requests
\* exports, one fewer than in Spec, of a project of two scenes.
InitPlay ==
  /\ build \in LocalBuilds
  /\ config = TwoSceneProject
  /\ exportBudget = MaxExports - 1
  /\ InitApp

NextPlay ==
  \/ TogglePlayback
  \/ TimerFire
  \/ JobNext

SpecPlay == InitPlay /\ [][NextPlay]_vars

\* SpecJob: one export of a longer project, run to its end.  The projects are
\* the scenario of three scenes (durations 2, 3, 1 s, delays 0.5, 0, 0 s,
\* reading buffer 1.5 s) and every project of one scene whose delay, duration
\* and reading buffer are at most MaxTenths tenths of a second.
ScenarioProject ==
  [InitialConfig EXCEPT
     !.scenes = <<MakeScene("1", 5, 20), MakeScene("2", 0, 30), MakeScene("3", 0, 10)>>,
     !.readingBuffer = 15]

JobProjects ==
  {ScenarioProject} \cup
  {[InitialConfig EXCEPT !.scenes = <<MakeScene("1", d, u)>>, !.readingBuffer = b] :
     d \in 0..MaxTenths, u \in 0..MaxTenths, b \in 0..MaxTenths}

InitJob ==
  /\ build \in LocalBuilds
  /\ config \in JobProjects
  /\ exportBudget = 1
  /\ InitApp

SpecJob == InitJob /\ [][JobNext]_vars

\* SpecTiming: the timing model on the projects the editor reaches.  The user
\* edits the times of the initial project, toggles playback and requests one
\* video export, which is followed up to the frame count of its first scene.
InitTiming ==
  /\ build \in Builds
  /\ config = InitialConfig
  /\ exportBudget = 1
  /\ InitApp

NextTiming ==
  \/ \E key \in {"delay", "duration"}, val \in NumberInputs :
       jobs = <<>> /\ HandleNumberChange(key, val)
  \/ \E tenths \in 0..MaxTenths : jobs = <<>> /\ SetGlobalTransition(tenths)
  \/ \E tenths \in 0..MaxTenths : jobs = <<>> /\ SetReadingBuffer(tenths)
  \/ TogglePlayback
  \/ TimerFire
  \/ ExportLocalVideo
  \/ \E j \in 1..Len(jobs) : LoadResolve(j) \/ SettleDone(j)

SpecTiming == InitTiming /\ [][NextTiming]_vars

\* SpecStore: the scene store.  The user adds, deletes, selects and edits
\* scenes and imports text files of up to MaxParagraphs paragraphs.
InitStore ==
  /\ build \in Builds
  /\ config = InitialConfig
  /\ exportBudget = 1
  /\ InitApp

\* the number field of the duration, emptied
EmptiedField == [kind |-> "empty", tenths |-> 0]

NextStore ==
  /\ ~crashed
  /\ \/ \E newId \in RandomIds : AddScene(newId)
     \/ \E k \in 1..Len(config.scenes) : DeleteScene(config.scenes[k].id)
     \/ \E k1, k2 \in 1..Len(config.scenes) :
          k1 # k2 /\ DeleteSceneTwice(config.scenes[k1].id, config.scenes[k2].id)
     \/ \E n \in 0..MaxParagraphs, now \in 0..MaxClock :
          HandleFileUpload(FileOfParagraphs(n), now)
     \/ \E k \in 1..Len(config.scenes) : SelectScene(config.scenes[k].id)
     \/ HandleNumberChange("duration", EmptiedField)

SpecStore == InitStore /\ [][NextStore]_vars

\* the store operations of the specifications with playback: one outcome of
\* Math.random and one value of Date.now()
StoreOps ==
  \/ AddScene(CHOOSE id \in RandomIds : TRUE)
  \/ \E k \in 1..Len(config.scenes) : DeleteScene(config.scenes[k].id)
  \/ \E n \in 0..MaxParagraphs : HandleFileUpload(FileOfParagraphs(n), MaxClock)

\* SpecStorePlay: the store and the global settings change during playback.
NextStorePlay ==
  /\ ~crashed
  /\ \/ StoreOps
     \/ HandleNumberChange("duration", EmptiedField)
     \/ SetGlobalTransition(0)
     \/ SetReadingBuffer(0)
     \/ TogglePlayback
     \/ TimerFire

SpecStorePlay == InitStore /\ [][NextStorePlay]_vars

\* SpecSession: playback sessions under every kind of operation: the store
\* changes, playback is toggled, and one video export is requested and
\* followed until it has stopped playback.
NextSession ==
  /\ ~crashed
  /\ \/ StoreOps
     \/ TogglePlayback
     \/ TimerFire
     \/ ExportLocalVideo
     \/ \E j \in 1..Len(jobs) : LoadResolve(j)

SpecSession == InitStore /\ [][NextSession]_vars

\* SpecRun: playback left alone.  A project of up to MaxScenes scenes is
\* played, with no stop request and no change of the store; the browser
\* runs the callback of an armed timeout when its delay is over (weak
\* fairness of TimerFire).
RunProjects ==
  {[InitialConfig EXCEPT
      !.scenes = [k \in 1..n |-> MakeScene(ToString(k), delay, duration)]] :
     n \in 1..MaxScenes, delay \in 0..MaxTenths, duration \in 0..MaxTenths}

InitRun ==
  /\ build \in Builds
  /\ config \in RunProjects
  /\ exportBudget = 0
  /\ InitApp

\* the play button, pressed while stopped
StartPlayback == ~isPlaying /\ TogglePlayback

NextRun == StartPlayback \/ TimerFire

SpecRun == InitRun /\ [][NextRun]_vars /\ WF_vars(TimerFire)

(***************************************************************************)
(* Properties of the export pipeline and of the timing model.              *)
(***************************************************************************)

\* C1: at most one export job is active at any time; an export requested
\* while a job is active is rejected and starts no second job.
C1_AtMostOneActiveJob == Cardinality(ActiveJobs) <= 1

\* C2: playback and video export are mutually exclusive: in no state is
\* playback running while a video export job is active.
C2_PlaybackExcludesExport ==
  ~(isPlaying /\ \E j \in ActiveJobs : jobs[j].kind = "video")

C4_SceneTimeIsPlainSum ==
  /\ \A j \in 1..Len(jobs) :
       jobs[j].pc = "capture" =>
         LET scene == jobs[j].cfg.scenes[jobs[j].i]
         IN  jobs[j].sceneTotalTime =
               DAdd(DAdd(ParseFloat(scene.delay), ParseFloat(scene.duration)),
                    ParseFloat(jobs[j].cfg.readingBuffer))
  /\ timer.armed =>
       LET scene == config.scenes[timer.index + 1]
       IN  timer.totalDuration =
             DMul(DAdd(DAdd(DAdd(ParseFloat(scene.delay), ParseFloat(scene.duration)),
                            ParseFloat(config.readingBuffer)),
                       ParseFloat(config.globalTransition)),
                  1000)

\* C4, amended: the scene time of the export loop is delay + duration +
\* readingBuffer with a duration of 0 replaced by one second, and the playback
\* timer waits that time plus the global transition.
C4_SceneTimeWithDefaultDuration ==
  /\ \A j \in 1..Len(jobs) :
       jobs[j].pc = "capture" =>
         LET scene == jobs[j].cfg.scenes[jobs[j].i]
             duration == IF scene.duration = 0 THEN IntToDouble(1)
                         ELSE ParseFloat(scene.duration)
         IN  jobs[j].sceneTotalTime =
               DAdd(DAdd(ParseFloat(scene.delay), duration),
                    ParseFloat(jobs[j].cfg.readingBuffer))
  /\ timer.armed =>
       LET scene == config.scenes[timer.index + 1]
           duration == IF scene.duration = 0 THEN IntToDouble(1)
                       ELSE ParseFloat(scene.duration)
       IN  timer.totalDuration =
             DMul(DAdd(DAdd(DAdd(ParseFloat(scene.delay), duration),
                            ParseFloat(config.readingBuffer)),
                       ParseFloat(config.globalTransition)),
                  1000)

\* an export has computed the time of a scene whose duration was set to 0
\* in the editor
C4_Witness ==
  \E j \in 1..Len(jobs) :
    /\ jobs[j].pc = "capture"
    /\ jobs[j].cfg.scenes[jobs[j].i].duration = 0
    /\ jobs[j].sceneTotalTime # DZero

\* C5: at 24 frames per second the export of the scenario project (durations
\* 2, 3, 1 s, delays 0.5, 0, 0 s, reading buffer 1.5 s) appends 96, 108 and 60
\* frames for its three scenes, in that order, 264 frames in all.
C5_ScenarioFrames ==
  \A j \in 1..Len(jobs) :
    (jobs[j].kind = "video" /\ jobs[j].cfg = ScenarioProject /\ Fps(build) = 24) =>
      /\ Len(jobs[j].caps) <= 3
      /\ \A k \in 1..Len(jobs[j].caps) : jobs[j].caps[k] = <<96, 108, 60>>[k]
      /\ jobs[j].pc = "done" => (Len(jobs[j].caps) = 3 /\ jobs[j].frameCount = 264)

\* the export of the scenario project at 24 frames per second has finished
C5_Witness ==
  \E j \in 1..Len(jobs) :
    /\ jobs[j].kind = "video" /\ jobs[j].pc = "done"
    /\ jobs[j].cfg = ScenarioProject /\ Fps(build) = 24
    /\ jobs[j].caps = <<96, 108, 60>>

\* C6: the wait armed by the playback timer is the scene time of the export
\* pipeline plus the global transition; another global transition gives
\* another wait, and the same frame count for every scene an export is at.
C6_PlaybackAddsTransition ==
  /\ timer.armed =>
       LET scene == config.scenes[timer.index + 1]
       IN  /\ timer.totalDuration =
                DMul(DAdd(SceneTotalTime(scene, config),
                          ParseFloat(config.globalTransition)), 1000)
           /\ \A g \in 0..MaxTenths :
                g # config.globalTransition =>
                  TotalDuration(scene, [config EXCEPT !.globalTransition = g])
                    # timer.totalDuration
  /\ \A j \in 1..Len(jobs) :
       jobs[j].pc = "capture" =>
         \A g \in 0..MaxTenths :
           ExportSteps(SceneTotalTime(jobs[j].cfg.scenes[jobs[j].i],
                                      [jobs[j].cfg EXCEPT !.globalTransition = g]),
                       Fps(build)) = jobs[j].steps

\* playback waits at a scene with a global transition set in the editor
C6_Witness ==
  /\ timer.armed
  /\ config.globalTransition \in 1..MaxTenths
  /\ timer.totalDuration #
       DMul(SceneTotalTime(config.scenes[timer.index + 1], config), 1000)

\* C7: the frame count of a scene is the ceiling of sceneTime * fps, the
\* least whole number not below the product, and at least 1, for every
\* non-negative delay, duration and readingBuffer, zeros included.
C7_StepsAreCeiling ==
  \A j \in 1..Len(jobs) :
    (jobs[j].kind = "video" /\ jobs[j].pc \in {"capture", "write", "raf"}) =>
      LET product == DMul(jobs[j].sceneTotalTime, Fps(build))
      IN  /\ jobs[j].steps >= 1
          /\ ~DLess(IntToDouble(jobs[j].steps), product)
          /\ DLess(IntToDouble(jobs[j].steps - 1), product)

\* an export captures a scene whose delay, duration and reading buffer are 0
C7_Witness ==
  \E j \in 1..Len(jobs) :
    /\ jobs[j].kind = "video" /\ jobs[j].pc = "capture"
    /\ jobs[j].cfg.scenes[jobs[j].i].delay = 0
    /\ jobs[j].cfg.scenes[jobs[j].i].duration = 0
    /\ jobs[j].cfg.readingBuffer = 0
    /\ jobs[j].steps >= 1

\* C8: the frames of a job reach its encoder strictly in order: the k-th
\* frame the encoder is handed since the job began is the job's frame of
\* index k - 1, and no two appends are in flight at once.
C8_FramesInOrder ==
  \A j \in ActiveJobs :
    jobs[j].kind = "video" =>
      /\ jobs[j].encSeen =
           jobs[j].frameCount + (IF jobs[j].pc = "write" THEN 1 ELSE 0)
      /\ build = "ffmpeg" => encWriting[jobs[j].ffmpeg] <= 1

\* C9: a capture or append that fails aborts the job: at that step the
\* failure message is shown and isExporting is reset, nothing is downloaded,
\* the encoder is not finalized for the job, and the failed job takes no
\* further step.
C9_FailureAborts ==
  [][\A j \in 1..Len(jobs) :
       /\ (jobs[j].pc \in {"capture", "write"} /\ jobs'[j].pc \in Ended) =>
            /\ jobs'[j].pc = "failed"
            /\ ~jobs'[j].finalized /\ ~jobs'[j].downloaded
            /\ alerts' = alerts + 1
            /\ isExporting' = FALSE
            /\ downloads' = downloads
       /\ jobs[j].pc = "failed" => jobs'[j] = jobs[j]]_vars

\* an append (writeFile) of a video export has failed
C9_Witness ==
  \E j \in 1..Len(jobs) :
    /\ jobs[j].kind = "video" /\ jobs[j].pc = "failed"
    /\ jobs[j].failedAt = "write"
    /\ ~jobs[j].finalized

\* C10: every export job that was started ends Done or Failed, and once no
\* job is running isExporting is false.
C10_JobsEndDoneOrFailed ==
  /\ \A j \in 1..Len(jobs) : ~Active(j) => jobs[j].pc \in {"done", "failed"}
  /\ ActiveJobs = {} => ~isExporting

\* SpecImport: text files of every content.  A file is up to MaxLines lines
\* drawn from LineChoices (white space only, text in white space, Chinese
\* text before a carriage return), or the file of the scenario: five lines,
\* the third one empty.  Files are imported into the
\* stores that addScene and earlier imports give, stopped and during playback.
LineChoices == {<<" ", "\r">>, <<" ", "b", " ">>, <<"han", "\r">>}

\* the content of the file of the given lines
RECURSIVE JoinLines(_)
JoinLines(ls) ==
  IF ls = <<>> THEN <<>>
  ELSE IF Len(ls) = 1 THEN ls[1]
  ELSE ls[1] \o <<"\n">> \o JoinLines(Tail(ls))

ScenarioLines == <<(<<"a">>), <<"b", " ", "c">>, <<>>, <<"d">>, <<"e">>>>

FileLines ==
  {ScenarioLines} \cup UNION {[1..n -> LineChoices] : n \in 1..MaxLines}

\* the contents of the files, computed once
ContentOfFile == [ls \in FileLines |-> JoinLines(ls)]

NextImport ==
  /\ ~crashed
  /\ \/ \E ls \in FileLines : HandleFileUpload(ContentOfFile[ls], MaxClock)
     \/ AddScene(CHOOSE id \in RandomIds : TRUE)
     \/ \E k \in 1..Len(config.scenes) : SelectScene(config.scenes[k].id)
     \/ TogglePlayback
     \/ TimerFire

SpecImport == InitStore /\ [][NextImport]_vars

\* SpecEdit: the editor and the style suggestion.  The user adds, deletes and
\* selects scenes, rewrites the text of the active scene and asks for a
\* suggestion, which arrives at any later moment.
EditedTexts == {<<"edited">>, <<" ">>}

NextEdit ==
  /\ ~crashed
  /\ \/ AddScene(CHOOSE id \in RandomIds : TRUE)
     \/ \E k \in 1..Len(config.scenes) : DeleteScene(config.scenes[k].id)
     \/ \E k \in 1..Len(config.scenes) : SelectScene(config.scenes[k].id)
     \/ \E text \in EditedTexts : HandleChange("text", text)
     \/ HandleAIAnalyze
     \/ \E result \in SuggestionResults : AnalysisSettles(result)

SpecEdit == InitStore /\ [][NextEdit]_vars

\* SpecRetry: export jobs one after the other on the ffmpeg revision.  The
\* user exports a project of two scenes, may delete a scene between two
\* exports, and starts an export only when no export is running.
InitRetry ==
  /\ build = "ffmpeg"
  /\ config = TwoSceneProject
  /\ exportBudget = MaxExports
  /\ InitApp

NextRetry ==
  \/ (ActiveJobs = {} /\ ExportLocalVideo)
  \/ (ActiveJobs = {} /\ \E k \in 1..Len(config.scenes) : DeleteScene(config.scenes[k].id))
  \/ \E j \in 1..Len(jobs) :
       \/ LoadResolve(j)
       \/ LoadReject(j)
       \/ SettleDone(j)
       \/ CaptureResolve(j)
       \/ CaptureReject(j)
       \/ WriteResolve(j)
       \/ WriteReject(j)
       \/ ExecResolve(j)
       \/ ExecReject(j)
       \/ ReadResolve(j)
       \/ ReadReject(j)
       \/ CleanupDone(j)

SpecRetry == InitRetry /\ [][NextRetry]_vars

\* SpecOwner: the three writers of activeSceneId side by side: the scene
\* list, playback and the export jobs, on a project of two scenes.  The
\* overlay shown while isExporting covers the scene list, whose items are
\* clicked with the pointer; the toolbar buttons are reached by keyboard.
NextOwner ==
  \/ (~isExporting /\ \E k \in 1..Len(config.scenes) : SelectScene(config.scenes[k].id))
  \/ TogglePlayback
  \/ TimerFire
  \/ JobNext

SpecOwner == InitPlay /\ [][NextOwner]_vars

(***************************************************************************)
(* Properties of the scene store and of the playback scheduler.            *)
(***************************************************************************)

\* C11: a step of an export job, whether the job goes on, succeeds or fails,
\* leaves the scene store (title, scenes, globalTransition, readingBuffer)
\* as it is, and leaves currentPlayIndex and playSessionId unchanged.
C11_ExportLeavesStore ==
  [][jobs' # jobs =>
       /\ config' = config
       /\ currentPlayIndex' = currentPlayIndex
       /\ playSessionId' = playSessionId]_vars

\* a video export has failed after playback had advanced to the second scene
C11_Witness ==
  \E j \in 1..Len(jobs) :
    /\ jobs[j].kind = "video" /\ jobs[j].pc = "failed"
    /\ currentPlayIndex = 1 /\ playSessionId >= 1
    /\ config = jobs[j].cfg

\* C12: the scene sequence is never empty, after any sequence of add,
\* delete, update and text-import operations, the import of a file without
\* a non-blank line included.
C12_StoreNeverEmpty == Len(config.scenes) >= 1

\* C13: deleteScene never reduces the store below one scene, also when two
\* delete requests are made from the same render of a store of two scenes,
\* and on a store of one scene it changes neither the scenes nor the selection.
C13_DeleteKeepsOneScene ==
  [][(\/ \E k \in 1..Len(config.scenes) : DeleteScene(config.scenes[k].id)
      \/ \E k1, k2 \in 1..Len(config.scenes) :
           k1 # k2 /\ DeleteSceneTwice(config.scenes[k1].id, config.scenes[k2].id))
     => /\ Len(config'.scenes) >= 1
        /\ Len(config.scenes) = 1 =>
             (config' = config /\ activeSceneId' = activeSceneId)]_vars

\* C14: no two scenes of the store share an id.
C14_IdsUnique ==
  \A k1, k2 \in 1..Len(config.scenes) :
    k1 # k2 => config.scenes[k1].id # config.scenes[k2].id

\* C15: currentPlayIndex is an index of the scene sequence in every state,
\* also when scenes are deleted or imported during playback.
C15_IndexInRange ==
  0 <= currentPlayIndex /\ currentPlayIndex < Len(config.scenes)

\* C16: a start of playback sets currentPlayIndex to 0, adds exactly 1 to
\* playSessionId and sets isPlaying; a step that ends playing changes neither
\* currentPlayIndex nor playSessionId.
C16_ToggleSemantics ==
  [][/\ (~isPlaying /\ isPlaying') =>
          (currentPlayIndex' = 0 /\ playSessionId' = playSessionId + 1)
     /\ (isPlaying /\ ~isPlaying') =>
          (currentPlayIndex' = currentPlayIndex /\ playSessionId' = playSessionId
           /\ config' = config)]_vars

\* a second session has started: playback runs from the first scene again
C16_Witness ==
  /\ isPlaying /\ playSessionId = 2 /\ currentPlayIndex = 0
  /\ timer.armed /\ timer.index = 0
  /\ activeSceneId = config.scenes[1].id

\* C17: playSessionId never decreases; it grows at every start of playback
\* and no other operation (stop, callback, store change, import, export)
\* changes it.
C17_SessionMonotone ==
  [][IF ~isPlaying /\ isPlaying'
     THEN playSessionId' > playSessionId
     ELSE playSessionId' = playSessionId]_vars

\* a second session runs after store changes and an export
C17_Witness ==
  /\ playSessionId = 2 /\ isPlaying
  /\ Len(config.scenes) >= 2
  /\ jobs # <<>>

C19_OneCallbackWhilePlaying == timer.armed <=> isPlaying

\* C20: the callback that fires while playing advances currentPlayIndex by
\* exactly 1, or stops playback at the last scene, and a session that is
\* left alone goes from the first scene to the stop at the last one.
C20_SessionRunsThrough ==
  /\ [][isPlaying =>
          IF currentPlayIndex < Len(config.scenes) - 1
          THEN isPlaying' /\ currentPlayIndex' = currentPlayIndex + 1
          ELSE ~isPlaying' /\ currentPlayIndex' = currentPlayIndex]_vars
  /\ (isPlaying /\ currentPlayIndex = 0)
       ~> (~isPlaying /\ currentPlayIndex = Len(config.scenes) - 1)

\* a session on MaxScenes scenes has run to its end
C20_Witness ==
  /\ ~isPlaying /\ playSessionId >= 1
  /\ Len(config.scenes) = MaxScenes
  /\ currentPlayIndex = MaxScenes - 1

(***************************************************************************)
(* Properties of the store operations, of the style suggestion and of the  *)
(* encoder's files.                                                        *)
(***************************************************************************)

\* a line without any character that is not white space
BlankLine(line) == \A k \in 1..Len(line) : line[k] \in WhiteSpace

\* t is the line without the white space at its two ends
IsTrimOf(t, line) ==
  \E a, b \in 0..Len(line) :
    /\ a + Len(t) + b = Len(line)
    /\ \A k \in 1..Len(t) : t[k] = line[a + k]
    /\ \A k \in 1..a : line[k] \in WhiteSpace
    /\ \A k \in 1..b : line[Len(line) + 1 - k] \in WhiteSpace
    /\ t # <<>> /\ t[1] \notin WhiteSpace /\ t[Len(t)] \notin WhiteSpace

\* scenes is one scene for each line that is not blank, in the order of the
\* lines, the text of each being its line trimmed
OneScenePerLine(scenes, ls) ==
  LET nb == {k \in 1..Len(ls) : ~BlankLine(ls[k])}
  IN  /\ Len(scenes) = Cardinality(nb)
      /\ \A i \in 1..Len(scenes) :
           \E k \in nb : /\ Cardinality({m \in nb : m < k}) = i - 1
                          /\ IsTrimOf(scenes[i].text, ls[k])

\* the scenes an import of each file gives, and the files that give the
\* same scenes, computed once
ScenesOfFile == [ls \in FileLines |-> ImportedScenes(ContentOfFile[ls], MaxClock)]

FilesOfScenes ==
  [scenes \in {ScenesOfFile[ls] : ls \in FileLines} |->
     {file : file \in {ls \in FileLines : ScenesOfFile[ls] = scenes}}]

\* the files whose import the step may be
ImportedFiles ==
  IF config'.scenes \in DOMAIN FilesOfScenes
  THEN {ls \in FilesOfScenes[config'.scenes] : HandleFileUpload(ContentOfFile[ls], MaxClock)}
  ELSE {}

FailedSuggestions == SuggestionResults \ {FullSuggestion}

\* C22: when the style-suggestion call fails (request error, unparsable
\* response, or a response that lacks expected fields) the store is left as
\* it is, no error escapes and isAnalyzing is false again.
C22_FailedSuggestionLeavesScene ==
  [][\A result \in FailedSuggestions :
       AnalysisSettles(result) => (config' = config /\ ~isAnalyzing' /\ ~crashed')]_vars

\* the scenes of the store with the given id are replaced by one record of
\* that id, and nothing else of the store changes
ReplacedById(id) ==
  /\ Len(config'.scenes) = Len(config.scenes)
  /\ \A k \in 1..Len(config.scenes) :
       /\ config'.scenes[k].id = config.scenes[k].id
       /\ config.scenes[k].id # id => config'.scenes[k] = config.scenes[k]
  /\ \A k1, k2 \in 1..Len(config.scenes) :
       (config.scenes[k1].id = id /\ config.scenes[k2].id = id)
         => config'.scenes[k1] = config'.scenes[k2]
  /\ config'.title = config.title
  /\ config'.globalTransition = config.globalTransition
  /\ config'.readingBuffer = config.readingBuffer
  /\ (\A k \in 1..Len(config.scenes) : config.scenes[k].id # id) => config' = config

\* C25: an update replaces exactly the scene whose id is the id of the given
\* record with that record: length, order of ids and every other scene stay,
\* and an update for an id that is not in the store changes nothing.
C25_UpdateReplacesById ==
  [][/\ \A text \in EditedTexts :
          HandleChange("text", text) =>
            /\ ReplacedById(ActiveScene.id)
            /\ \A k \in 1..Len(config.scenes) :
                 config.scenes[k].id = ActiveScene.id =>
                   config'.scenes[k] = [ActiveScene EXCEPT !.text = text]
     /\ \A result \in SuggestionResults \ {Null} :
          AnalysisSettles(result) => ReplacedById(analysis[1].id)]_vars

\* a scene rewritten in the editor next to a scene restyled by a suggestion
C25_Witness ==
  \E k1, k2 \in 1..Len(config.scenes) :
    /\ config.scenes[k1].id # config.scenes[k2].id
    /\ config.scenes[k1].text = <<"edited">>
    /\ config.scenes[k1].visualPrompt = Undefined
    /\ config.scenes[k2].visualPrompt = "misty harbour"
    /\ config.scenes[k2].text # <<"edited">>

\* C29: a suggestion that arrives changes only the colour fields (color,
\* background), fontFamily, animation and visualPrompt of the scene it was
\* requested for; every other field of that scene keeps the value it has in
\* the store at that moment, and no other scene changes.
C29_SuggestionKeepsEdits ==
  [][\A result \in SuggestionResults \ {Null} :
       AnalysisSettles(result) =>
         /\ Len(config'.scenes) = Len(config.scenes)
         /\ \A k \in 1..Len(config.scenes) :
              IF config.scenes[k].id # analysis[1].id
              THEN config'.scenes[k] = config.scenes[k]
              ELSE config'.scenes[k] =
                     [config.scenes[k] EXCEPT
                        !.color = config'.scenes[k].color,
                        !.background = config'.scenes[k].background,
                        !.fontFamily = config'.scenes[k].fontFamily,
                        !.animation = config'.scenes[k].animation,
                        !.visualPrompt = config'.scenes[k].visualPrompt]]_vars

\* the sequence without its element at position k
RemoveAt(seq, k) ==
  [m \in 1..(Len(seq) - 1) |-> IF m < k THEN seq[m] ELSE seq[m + 1]]

\* no two scenes of the store have the same id
DistinctSceneIds ==
  \A k1, k2 \in 1..Len(config.scenes) :
    config.scenes[k1].id = config.scenes[k2].id => k1 = k2

\* C24: on a store of two scenes or more (taken here with distinct ids),
\* deleting a scene removes exactly that scene and keeps the others and
\* their order; the first remaining scene becomes active when the deleted
\* scene was the active one, and the selection stays when it was not.
C24_DeleteRemovesOne ==
  [][\A k \in 1..Len(config.scenes) :
       (/\ Len(config.scenes) >= 2
        /\ DistinctSceneIds
        /\ DeleteScene(config.scenes[k].id)) =>
         /\ config'.scenes = RemoveAt(config.scenes, k)
         /\ activeSceneId' = IF activeSceneId = config.scenes[k].id
                             THEN config'.scenes[1].id
                             ELSE activeSceneId]_vars

\* the scene appended by an add: the style of the scene that was active and
\* the placeholder of its language
AppendedByAdd(newId) ==
  /\ Len(config'.scenes) = Len(config.scenes) + 1
  /\ \A k \in 1..Len(config.scenes) : config'.scenes[k] = config.scenes[k]
  /\ LET added == config'.scenes[Len(config'.scenes)]
     IN  /\ added.id = newId
         /\ added.text = IF ActiveScene.language = "zh"
                         THEN <<"Xin pianzhang kaishi le...">>
                         ELSE <<"New chapter begins...">>
         /\ added = [ActiveScene EXCEPT !.id = added.id, !.text = added.text]
  /\ config'.title = config.title
  /\ config'.globalTransition = config.globalTransition
  /\ config'.readingBuffer = config.readingBuffer

C27_StillExportFrame ==
  [][/\ (Len(jobs') > Len(jobs) /\ jobs'[Len(jobs')].kind = "image") =>
          /\ UNCHANGED <<isPlaying, currentPlayIndex, playSessionId, activeSceneId, config>>
          /\ jobs'[Len(jobs')].pc = "snapshot"
          /\ downloads' = downloads
     /\ \A j \in 1..Len(jobs) :
          (jobs[j].kind = "image" /\ jobs'[j] # jobs[j]) =>
            /\ UNCHANGED <<isPlaying, currentPlayIndex, playSessionId, activeSceneId, config>>
            /\ jobs[j].pc = "snapshot"
            /\ jobs'[j].pc \in {"done", "failed"}
            /\ downloads' = downloads + (IF jobs'[j].pc = "done" THEN 1 ELSE 0)
            /\ alerts' = alerts
            /\ ~isExporting']_vars

\* a still export has failed while playback was at its second scene
C27_Witness ==
  /\ \E j \in 1..Len(jobs) : jobs[j].kind = "image" /\ jobs[j].pc = "failed"
  /\ isPlaying /\ currentPlayIndex = 1
  /\ ~isExporting
  /\ downloads = 0

\* C30: when a video export is at its encode step, the files frame<n>.png
\* of its FFmpeg instance are exactly those of the indices 0 .. frameCount-1
\* that the job wrote; no file of an earlier job is among the encoder's input.
C30_EncoderHoldsOwnFrames ==
  \A j \in 1..Len(jobs) :
    (jobs[j].kind = "video" /\ jobs[j].pc = "exec")
      => fsFrames[jobs[j].ffmpeg] = 0..(jobs[j].frameCount - 1)

\* C21: activeSceneId is written by its owner only: while a video export
\* job is active it changes only in a step of such a job, and while playing
\* it is the id of scenes[currentPlayIndex].
C21_PointerOwners ==
  [][/\ ((\E j \in ActiveJobs : jobs[j].kind = "video") /\ activeSceneId' # activeSceneId)
          => \E j \in ActiveJobs : jobs[j].kind = "video" /\ jobs'[j] # jobs[j]
     /\ (isPlaying' /\ ~crashed' /\ currentPlayIndex' < Len(config'.scenes))
          => activeSceneId' = config'.scenes[currentPlayIndex' + 1].id]_vars

\* C28: as long as the application renders, activeSceneId is the id of a
\* scene of the store.
C28_ActiveIdInStore ==
  ~crashed => \E k \in 1..Len(config.scenes) : config.scenes[k].id = activeSceneId

====
